---- MODULE Spec2Model ----
(***************************************************************************)
(* Model of the proxima-centauri TCP proxy controller (src/src/lib.rs):    *)
(* the command handler process_command over GlobalState, the per-tunnel    *)
(* watch channel, the listener task `proxy` and the per-connection task    *)
(* `transfer`.                                                             *)
(***************************************************************************)
EXTENDS Integers, FiniteSets, Sequences, TLC

(***************************************************************************)
(* Bounds of the model.                                                    *)
(***************************************************************************)
NumIds == 2
NumPorts == 2
NumDests == 2
NumHandlers == 2
MaxTransfers == 2
MaxCommands == 3
NowSecs == 100

\* The watch channels the commands can make.  A channel is made by a Create
\* that reserved its port (lines 147, 157) and a port is released only by a
\* Delete (line 206), so k channels take k Creates and at least k - NumPorts
\* Deletes: 2k <= MaxCommands + NumPorts.
MaxChannels == (MaxCommands + NumPorts) \div 2

Ids == 1..NumIds
Ports == 1..NumPorts
Dests == 1..NumDests
Handlers == 1..NumHandlers
Channels == 1..MaxChannels
Transfers == 1..MaxTransfers

(***************************************************************************)
(* Program constants.                                                      *)
(***************************************************************************)
OK == 200
ACCEPTED == 202
UNAUTHORIZED == 401
NOT_FOUND == 404
CONFLICT == 409
FutureSkew == 30
MaxAge == 60

VARIABLES
    proxies,        \* GlobalState.proxies: id -> ProxyState (NoProxy when absent)
    ports,          \* GlobalState.ports: the reserved incoming ports
    poisoned,       \* the proxies Mutex is poisoned (a holder panicked)
    verifying_key,  \* GlobalState.verifying_key is Some(_)
    chans,          \* the watch channels: shared value, version, sender alive
    listeners,      \* per channel: the `proxy` task and its TcpListener
    transfers,      \* the `transfer` tasks
    hs,             \* the in-flight process_command calls
    ncmds           \* number of commands received (bounds the exploration)

vars == <<proxies, ports, poisoned, verifying_key, chans, listeners, transfers, hs, ncmds>>

(***************************************************************************)
(* Option values: None is the empty set, Some(x) the singleton.            *)
(***************************************************************************)
None == {}
Some(x) == {x}
Unwrap(o) == CHOOSE x \in o : TRUE

(***************************************************************************)
(* ProxyControlMessage                                                     *)
(***************************************************************************)
Open(d) == [tag |-> "Open", destination |-> d]
Close == [tag |-> "Close", destination |-> 0]

NoProxy == [incoming_port |-> 0, destination |-> 0, control |-> 0]
ProxyState(p, d, c) == [incoming_port |-> p, destination |-> d, control |-> c]

NoChannel == [allocated |-> FALSE, value |-> Close, version |-> 0, tx |-> FALSE]
NoListener == [state |-> "none", port |-> 0, version |-> 0]
\* A transfer task: its place in the loop, its receiver (channel and version
\* seen), the destination it captured, its sockets and the two copy directions.
\* born and readAt are history fields: the channel's version when the
\* connection was accepted and when the captured destination was read.
NoTransfer == [pc |-> "unused", control |-> 0, version |-> 0, current_destination |-> 0,
               inbound |-> "none", outbound |-> 0, c2s |-> "none", s2c |-> "none",
               result |-> "none", born |-> 0, readAt |-> 0]
\* A process_command call: envelope is None, or Some(signature and timestamp
\* of the payload) while the call stands at the signature gate or was stopped
\* by it.
IdleHandler == [pc |-> "idle", kind |-> "none", id |-> 0, incoming_port |-> 0,
                destination |-> 0, control |-> 0, response |-> 0, tunnels |-> {},
                envelope |-> {}]

(***************************************************************************)
(* ProxyCommand::verify_signature.  `key` is whether a verifying key is    *)
(* configured, `signature` is None or Some(whether key.verify accepts it   *)
(* for the command and timestamp), `timestamp` is None or Some(seconds);   *)
(* the clock reads secs + nanos/10^9 with nanos > 0 modelled by            *)
(* frac = 1.  Durations are compared exactly; Duration subtraction panics  *)
(* when the result would be negative.                                      *)
(***************************************************************************)
DurationLess(s1, f1, s2, f2) == s1 < s2 \/ (s1 = s2 /\ f1 < f2)

\* A variant that tests the freshness of the timestamp before the signature.
VerifySignature_FreshnessFirst(key, signature, timestamp, secs, frac) ==
    IF ~key THEN "true"
    ELSE IF signature = None THEN "false"
    ELSE IF timestamp = None THEN "false"
    ELSE LET t == Unwrap(timestamp) IN
         IF DurationLess(secs + FutureSkew, frac, t, 0) THEN "false"
         ELSE IF DurationLess(secs, frac, t, 0) THEN "panic"
         ELSE IF DurationLess(MaxAge, 0, secs - t, frac) THEN "false"
         ELSE IF ~Unwrap(signature) THEN "false"
         ELSE "true"

VerifySignature(key, signature, timestamp, secs, frac) ==
    IF ~key THEN "true"
    ELSE IF signature = None THEN "false"
    ELSE IF timestamp = None THEN "false"
    ELSE IF ~Unwrap(signature) THEN "false"
    ELSE LET t == Unwrap(timestamp) IN
         IF DurationLess(secs + FutureSkew, frac, t, 0) THEN "false"
         ELSE IF DurationLess(secs, frac, t, 0) THEN "panic"
         ELSE IF ~DurationLess(MaxAge, 0, secs - t, frac) THEN "true"
         ELSE "false"

Signatures == {None, Some(TRUE), Some(FALSE)}
Timestamps == {None} \cup {Some(t) : t \in {NowSecs - MaxAge - 1, NowSecs - MaxAge, NowSecs,
                                             NowSecs + 1, NowSecs + FutureSkew,
                                             NowSecs + FutureSkew + 1}}
Envelopes == [signature : Signatures, timestamp : Timestamps, frac : {0, 1}]

Verify(e) == VerifySignature(verifying_key, e.signature, e.timestamp, NowSecs, e.frac)

(***************************************************************************)
(* tokio::sync::watch                                                      *)
(***************************************************************************)
\* Receivers of channel c: the rx a Create holds until add_proxy hands it to
\* the listener task, the listener's, and one clone per running transfer.
RxCount(c) ==
    Cardinality({h \in Handlers : hs[h].pc = "create_bind" /\ hs[h].control = c})
    + (IF listeners[c].state = "running" THEN 1 ELSE 0)
    + Cardinality({t \in Transfers : transfers[t].control = c
                                      /\ transfers[t].pc \notin {"unused", "done"}})

\* Sender::send succeeds iff some receiver exists; it then replaces the value
\* and bumps the version.
SendOk(c) == RxCount(c) > 0
Sent(ch, msg) == [ch EXCEPT !.value = msg, !.version = @ + 1]

\* Receiver::changed is ready when the receiver's version differs from the
\* channel's (Ok) or the sender is gone (Err).
ChangedReady(c, version) == chans[c].version # version \/ ~chans[c].tx

FreeChannel == CHOOSE c \in Channels : ~chans[c].allocated /\
                   \A c2 \in Channels : ~chans[c2].allocated => c <= c2

\* Ports with a live TcpListener of this process.
Listening == {listeners[c].port : c \in {c2 \in Channels : listeners[c2].state = "running"}}

Init ==
    /\ proxies = [i \in Ids |-> NoProxy]
    /\ ports = {}
    /\ poisoned = FALSE
    /\ verifying_key \in BOOLEAN
    /\ chans = [c \in Channels |-> NoChannel]
    /\ listeners = [c \in Channels |-> NoListener]
    /\ transfers = [t \in Transfers |-> NoTransfer]
    /\ hs = [h \in Handlers |-> IdleHandler]
    /\ ncmds = 0

(***************************************************************************)
(* process_command                                                         *)
(***************************************************************************)
Finished(kind, id, response) ==
    [IdleHandler EXCEPT !.pc = "done", !.kind = kind, !.id = id, !.response = response]
Panicked(kind, id) ==
    [IdleHandler EXCEPT !.pc = "panicked", !.kind = kind, !.id = id]

\* The proxies Mutex is free: no Delete stands between lines 205 and 206,
\* where the guard taken at line 204 is still alive.  A call that needs the
\* lock waits until then.
ProxiesLockFree == \A g \in Handlers : hs[g].pc # "delete_release"

\* A request arrives and is served by the first idle worker (the workers are
\* interchangeable).
Received(h) ==
    /\ hs[h].pc = "idle"
    /\ \A g \in Handlers : g < h => hs[g].pc # "idle"
    /\ ncmds < MaxCommands
    /\ ncmds' = ncmds + 1

\* Lines 125-130: the request passes the signature gate, in one step with its
\* arrival or, when the arrival was a step of its own (Arrived), with the
\* envelope it brought.
Admitted(h) ==
    \/ /\ Received(h)
       /\ \E e \in Envelopes : Verify(e) = "true"
    \/ /\ hs[h].pc = "verify"
       /\ Verify(Unwrap(hs[h].envelope)) = "true"
       /\ UNCHANGED ncmds

\* The signature gate rejects the request (401), or verify_signature panics.
Rejected(h) ==
    /\ Received(h)
    /\ \E e \in Envelopes :
          /\ Verify(e) # "true"
          /\ hs' = [hs EXCEPT ![h] = IF Verify(e) = "false"
                                     THEN Finished("none", 0, UNAUTHORIZED)
                                     ELSE Panicked("none", 0)]
    /\ UNCHANGED <<proxies, ports, poisoned, verifying_key, chans, listeners, transfers>>

\* The payload arrives and the call stands before the signature gate.  The
\* variant of the command and the envelope are kept; the fields of the command
\* are read when the match of line 131 is reached.
Kinds == {"create", "modify", "delete", "status"}

Arrived(h, kind, e) ==
    /\ Received(h)
    /\ hs' = [hs EXCEPT ![h] = [IdleHandler EXCEPT !.pc = "verify", !.kind = kind,
                                                  !.envelope = Some(e)]]
    /\ UNCHANGED <<proxies, ports, poisoned, verifying_key, chans, listeners, transfers>>

\* A variant in which a refused call releases the reserved ports.
Unauthorized_Releases(h) ==
    /\ hs[h].pc = "verify"
    /\ Verify(Unwrap(hs[h].envelope)) # "true"
    /\ hs' = [hs EXCEPT ![h] =
                 [Finished(hs[h].kind, 0, UNAUTHORIZED) EXCEPT !.envelope = hs[h].envelope]]
    /\ ports' = {}
    /\ UNCHANGED <<proxies, poisoned, verifying_key, chans, listeners, transfers, ncmds>>

\* Lines 125-130 for a call standing before the gate: verify_signature returns
\* false and the call returns 401 before the match, or verify_signature panics.
Unauthorized(h) ==
    /\ hs[h].pc = "verify"
    /\ Verify(Unwrap(hs[h].envelope)) # "true"
    /\ hs' = [hs EXCEPT ![h] =
                 IF Verify(Unwrap(hs[h].envelope)) = "false"
                 THEN [Finished(hs[h].kind, 0, UNAUTHORIZED) EXCEPT !.envelope = hs[h].envelope]
                 ELSE [Panicked(hs[h].kind, 0) EXCEPT !.envelope = hs[h].envelope]]
    /\ UNCHANGED <<proxies, ports, poisoned, verifying_key, chans, listeners, transfers, ncmds>>

\* Line 131: the call that passed the gate holds a command of this variant.
Matched(h, kind) == hs[h].pc = "verify" /\ hs[h].kind = kind

\* Create, lines 139-146: the id check under the proxies lock.
CreateCheckId(h, id, p, d) ==
    /\ Admitted(h)
    /\ ProxiesLockFree
    /\ hs' = [hs EXCEPT ![h] =
                 IF poisoned THEN Panicked("create", id)
                 ELSE IF proxies[id] # NoProxy THEN Finished("create", id, CONFLICT)
                 ELSE [IdleHandler EXCEPT !.pc = "create_reserve", !.kind = "create",
                           !.id = id, !.incoming_port = p, !.destination = d]]
    /\ UNCHANGED <<proxies, ports, poisoned, verifying_key, chans, listeners, transfers>>

\* Create, lines 147-154: reserve the port in the port set.
CreateReserve(h) ==
    /\ hs[h].pc = "create_reserve"
    /\ IF hs[h].incoming_port \in ports
       THEN /\ hs' = [hs EXCEPT ![h] = Finished("create", hs[h].id, CONFLICT)]
            /\ UNCHANGED ports
       ELSE /\ ports' = ports \cup {hs[h].incoming_port}
            /\ hs' = [hs EXCEPT ![h].pc = "create_insert"]
    /\ UNCHANGED <<proxies, poisoned, verifying_key, chans, listeners, transfers, ncmds>>

\* Create, lines 156-165: make the channel and insert the record.  HashMap::insert
\* replaces a record another Create put there meanwhile; the old ProxyState and
\* with it the old Sender are dropped.
CreateInsert(h) ==
    /\ hs[h].pc = "create_insert"
    /\ ProxiesLockFree
    /\ IF poisoned
       THEN /\ hs' = [hs EXCEPT ![h] = Panicked("create", hs[h].id)]
            /\ UNCHANGED <<proxies, chans>>
       ELSE LET c == FreeChannel
                old == proxies[hs[h].id].control
                made == [chans EXCEPT ![c] = [allocated |-> TRUE,
                                              value |-> Open(hs[h].destination),
                                              version |-> 0, tx |-> TRUE]]
            IN /\ chans' = IF old # 0 THEN [made EXCEPT ![old].tx = FALSE] ELSE made
               /\ proxies' = [proxies EXCEPT ![hs[h].id] =
                                 ProxyState(hs[h].incoming_port, hs[h].destination, c)]
               /\ hs' = [hs EXCEPT ![h].pc = "create_bind", ![h].control = c]
    /\ UNCHANGED <<ports, poisoned, verifying_key, listeners, transfers, ncmds>>

\* add_proxy, lines 239-246, and the unwrap of line 166.  The bind is refused
\* when a listener of this process still holds the port or when the OS refuses
\* it for a reason of its own (os_ok = FALSE: the port belongs to another
\* process, or is privileged).
AddProxy(h, os_ok) ==
    LET c == hs[h].control IN
    IF os_ok /\ hs[h].incoming_port \notin Listening
    THEN /\ listeners' = [listeners EXCEPT ![c] = [state |-> "running",
                                                   port |-> hs[h].incoming_port,
                                                   version |-> 0]]
         /\ hs' = [hs EXCEPT ![h] = [Finished("create", hs[h].id, ACCEPTED)
                                        EXCEPT !.control = c]]
    ELSE /\ hs' = [hs EXCEPT ![h] = Panicked("create", hs[h].id)]
         /\ UNCHANGED listeners

CreateBind(h) ==
    /\ hs[h].pc = "create_bind"
    /\ \E os_ok \in BOOLEAN : AddProxy(h, os_ok)
    /\ UNCHANGED <<proxies, ports, poisoned, verifying_key, chans, transfers, ncmds>>

\* Modify, lines 176-202, one critical section of the proxies lock: the
\* destination is written, then sent; a failed send panics with the lock held.
ModifyRecord(id, d) ==
    LET c == proxies[id].control IN
    /\ proxies' = [proxies EXCEPT ![id].destination = d]
    /\ IF SendOk(c)
       THEN /\ chans' = [chans EXCEPT ![c] = Sent(@, Open(d))]
            /\ UNCHANGED poisoned
       ELSE /\ poisoned' = TRUE
            /\ UNCHANGED chans

Modify(h, id, d) ==
    /\ Admitted(h)
    /\ ProxiesLockFree
    /\    IF poisoned
          THEN /\ hs' = [hs EXCEPT ![h] = Panicked("modify", id)]
               /\ UNCHANGED <<proxies, chans, poisoned>>
          ELSE IF proxies[id] = NoProxy
          THEN /\ hs' = [hs EXCEPT ![h] = Finished("modify", id, NOT_FOUND)]
               /\ UNCHANGED <<proxies, chans, poisoned>>
          ELSE /\ ModifyRecord(id, d)
               /\ hs' = [hs EXCEPT ![h] =
                            IF SendOk(proxies[id].control)
                            THEN [Finished("modify", id, ACCEPTED)
                                     EXCEPT !.control = proxies[id].control]
                            ELSE Panicked("modify", id)]
    /\ UNCHANGED <<ports, verifying_key, listeners, transfers>>

\* Delete, lines 204-205, under the proxies lock: the record is removed and
\* Close is sent.  The call then goes on to the ports lock (line 206) with the
\* proxies lock and the removed record, its Sender included, still in its
\* hands.  A failed send panics with the lock held: the unwinding drops the
\* record and poisons the lock, and the port is never released.
DeleteRecord(id) ==
    LET c == proxies[id].control IN
    /\ proxies' = [proxies EXCEPT ![id] = NoProxy]
    /\ IF SendOk(c)
       THEN /\ chans' = [chans EXCEPT ![c] = Sent(@, Close)]
            /\ UNCHANGED poisoned
       ELSE /\ chans' = [chans EXCEPT ![c].tx = FALSE]
            /\ poisoned' = TRUE

Delete(h, id) ==
    /\ Admitted(h)
    /\ ProxiesLockFree
    /\    IF poisoned
          THEN /\ hs' = [hs EXCEPT ![h] = Panicked("delete", id)]
               /\ UNCHANGED <<proxies, chans, poisoned>>
          ELSE IF proxies[id] = NoProxy
          THEN /\ hs' = [hs EXCEPT ![h] = Finished("delete", id, NOT_FOUND)]
               /\ UNCHANGED <<proxies, chans, poisoned>>
          ELSE /\ DeleteRecord(id)
               /\ hs' = [hs EXCEPT ![h] =
                            IF SendOk(proxies[id].control)
                            THEN [IdleHandler EXCEPT !.pc = "delete_release",
                                      !.kind = "delete", !.id = id,
                                      !.incoming_port = proxies[id].incoming_port,
                                      !.control = proxies[id].control]
                            ELSE Panicked("delete", id)]
    /\ UNCHANGED <<ports, verifying_key, listeners, transfers>>

\* Delete, lines 206-210: the port is released under the ports lock; at the
\* end of the block the removed record (the Sender) and the guard of the
\* proxies lock are dropped, and the call answers 202.
DeleteRelease(h) ==
    /\ hs[h].pc = "delete_release"
    /\ ports' = ports \ {hs[h].incoming_port}
    /\ chans' = [chans EXCEPT ![hs[h].control].tx = FALSE]
    /\ hs' = [hs EXCEPT ![h] = [Finished("delete", hs[h].id, ACCEPTED)
                                   EXCEPT !.control = hs[h].control]]
    /\ UNCHANGED <<proxies, poisoned, verifying_key, listeners, transfers, ncmds>>

\* Status, lines 218-229: the snapshot of the registry.
Snapshot == {<<i, proxies[i].incoming_port, proxies[i].destination>> :
                 i \in {j \in Ids : proxies[j] # NoProxy}}

Status(h) ==
    /\ Admitted(h)
    /\ ProxiesLockFree
    /\ hs' = [hs EXCEPT ![h] = IF poisoned THEN Panicked("status", 0)
                               ELSE [Finished("status", 0, OK) EXCEPT !.tunnels = Snapshot]]
    /\ UNCHANGED <<proxies, ports, poisoned, verifying_key, chans, listeners, transfers>>

\* The response (or, after a panic, the reset connection) reaches the client.
Reply(h) ==
    /\ hs[h].pc \in {"done", "panicked"}
    /\ hs' = [hs EXCEPT ![h] = IdleHandler]
    /\ UNCHANGED <<proxies, ports, poisoned, verifying_key, chans, listeners, transfers, ncmds>>

(***************************************************************************)
(* proxy: the listener task of one tunnel, lines 248-271.                  *)
(***************************************************************************)
FreeTransfer == CHOOSE t \in Transfers : transfers[t].pc = "unused" /\
                    \A t2 \in Transfers : transfers[t2].pc = "unused" => t <= t2

\* The accept arm of the select: a connection arrives and a transfer is spawned
\* with a clone of the listener's receiver (the clone carries the version the
\* listener has seen); an accept error is ignored.
Spawned(c) ==
    [NoTransfer EXCEPT !.pc = "borrow", !.control = c, !.version = listeners[c].version,
                       !.inbound = "open", !.born = chans[c].version]

ProxyAccept(c) ==
    /\ listeners[c].state = "running"
    /\ \E t \in Transfers : transfers[t].pc = "unused"
    /\ \E ok \in BOOLEAN :
          transfers' = IF ok THEN [transfers EXCEPT ![FreeTransfer] = Spawned(c)]
                       ELSE transfers
    /\ UNCHANGED <<proxies, ports, poisoned, verifying_key, chans, listeners, hs, ncmds>>

\* The control.changed() arm of the select: on Close the task returns and the
\* TcpListener is dropped; on Open it only logs.
ListenerOnChange_IgnoresClose(l, ch) == [l EXCEPT !.version = ch.version]

\* A variant in which the listener returns on any message.
ListenerOnChange_ExitsOnOpen(l, ch) == [l EXCEPT !.state = "exited"]

ListenerOnChange(l, ch) ==
    IF ch.value.tag = "Close"
    THEN [l EXCEPT !.state = "exited"]
    ELSE [l EXCEPT !.version = ch.version]

ProxyChanged(c) ==
    /\ listeners[c].state = "running"
    /\ ChangedReady(c, listeners[c].version)
    /\ listeners' = [listeners EXCEPT ![c] = ListenerOnChange(@, chans[c])]
    /\ UNCHANGED <<proxies, ports, poisoned, verifying_key, chans, transfers, hs, ncmds>>

(***************************************************************************)
(* transfer: the task of one accepted connection, lines 273-335.           *)
(***************************************************************************)
\* The task returns: inbound, outbound and the receiver are dropped.
Exited(tr, result) ==
    [NoTransfer EXCEPT !.pc = "done", !.control = tr.control, !.inbound = "closed",
                       !.result = result]

\* A variant that captures the first destination whatever the channel holds.
TransferOnBorrow_FirstDestination(tr, ch) ==
    IF ch.value.tag = "Open"
    THEN [tr EXCEPT !.pc = "connect", !.current_destination = 1, !.readAt = ch.version]
    ELSE Exited(tr, "ok")

\* Lines 278-283: control.borrow() reads the current value and leaves the
\* receiver's version alone.
TransferOnBorrow(tr, ch) ==
    IF ch.value.tag = "Open"
    THEN [tr EXCEPT !.pc = "connect", !.current_destination = ch.value.destination,
                    !.readAt = ch.version]
    ELSE Exited(tr, "ok")

TransferBorrow(t) ==
    /\ transfers[t].pc = "borrow"
    /\ transfers' = [transfers EXCEPT ![t] = TransferOnBorrow(@, chans[@.control])]
    /\ UNCHANGED <<proxies, ports, poisoned, verifying_key, chans, listeners, hs, ncmds>>

\* Line 284: the dial ends, with a connection or with an error the `?` returns.
TransferOnConnect(tr, ok) ==
    IF ok
    THEN [tr EXCEPT !.pc = "select", !.outbound = tr.current_destination,
                    !.c2s = "pending", !.s2c = "pending"]
    ELSE Exited(tr, "err")

\* A variant in which a failed dial also stops the listener of the tunnel.
TransferConnect_StopsListener(t) ==
    /\ transfers[t].pc = "connect"
    /\ \E ok \in BOOLEAN :
          /\ transfers' = [transfers EXCEPT ![t] = TransferOnConnect(@, ok)]
          /\ listeners' = IF ok THEN listeners
                          ELSE [listeners EXCEPT ![transfers[t].control].state = "exited"]
    /\ UNCHANGED <<proxies, ports, poisoned, verifying_key, chans, hs, ncmds>>

TransferConnect(t) ==
    /\ transfers[t].pc = "connect"
    /\ \E ok \in BOOLEAN : transfers' = [transfers EXCEPT ![t] = TransferOnConnect(@, ok)]
    /\ UNCHANGED <<proxies, ports, poisoned, verifying_key, chans, listeners, hs, ncmds>>

\* Lines 289-318: one copy direction ends, at EOF (ok) or with an I/O error;
\* tokio::join! completes when both have ended, and only then is the first arm
\* of the select ready.  The end of the second direction and the completion of
\* the join are one step: the task exits Ok when both ended ok and with the
\* error otherwise (r1? before r2?).
TransferOnCopyEnd(tr, dir, r) ==
    LET c2s == IF dir = "c2s" THEN r ELSE tr.c2s
        s2c == IF dir = "s2c" THEN r ELSE tr.s2c
    IN IF c2s = "pending" \/ s2c = "pending"
       THEN [tr EXCEPT !.c2s = c2s, !.s2c = s2c]
       ELSE IF c2s = "ok" /\ s2c = "ok" THEN Exited(tr, "ok") ELSE Exited(tr, "err")

CopyEnds(t) ==
    /\ transfers[t].pc = "select"
    /\ \E dir \in {"c2s", "s2c"}, r \in {"ok", "err"} :
          /\ transfers[t][dir] = "pending"
          /\ transfers' = [transfers EXCEPT ![t] = TransferOnCopyEnd(@, dir, r)]
    /\ UNCHANGED <<proxies, ports, poisoned, verifying_key, chans, listeners, hs, ncmds>>

\* Lines 319-331: the control.changed() arm of the select.  changed() marks
\* the channel's version as seen; on Open the outbound connection is dropped
\* and the loop restarts with the same inbound; on Close the task returns.
TransferOnChange_TearsDown(tr, ch) == Exited(tr, "ok")

\* A variant that restarts the loop on Open without dropping the outbound
\* connection.
TransferOnChange_KeepsOutbound(tr, ch) ==
    IF ch.value.tag = "Open"
    THEN [tr EXCEPT !.pc = "borrow", !.version = ch.version, !.current_destination = 0,
                    !.c2s = "none", !.s2c = "none", !.readAt = 0]
    ELSE [Exited(tr, "ok") EXCEPT !.version = ch.version]

TransferOnChange(tr, ch) ==
    IF ch.value.tag = "Open"
    THEN [tr EXCEPT !.pc = "borrow", !.version = ch.version, !.current_destination = 0,
                    !.outbound = 0, !.c2s = "none", !.s2c = "none", !.readAt = 0]
    ELSE [Exited(tr, "ok") EXCEPT !.version = ch.version]

TransferChanged(t) ==
    /\ transfers[t].pc = "select"
    /\ ChangedReady(transfers[t].control, transfers[t].version)
    /\ transfers' = [transfers EXCEPT ![t] = TransferOnChange(@, chans[@.control])]
    /\ UNCHANGED <<proxies, ports, poisoned, verifying_key, chans, listeners, hs, ncmds>>

(***************************************************************************)
(* Specifications.                                                         *)
(***************************************************************************)
Next ==
    \/ \E h \in Handlers : Rejected(h)
    \/ \E h \in Handlers, id \in Ids, p \in Ports, d \in Dests : CreateCheckId(h, id, p, d)
    \/ \E h \in Handlers : CreateReserve(h)
    \/ \E h \in Handlers : CreateInsert(h)
    \/ \E h \in Handlers : CreateBind(h)
    \/ \E h \in Handlers, id \in Ids, d \in Dests : Modify(h, id, d)
    \/ \E h \in Handlers, id \in Ids : Delete(h, id)
    \/ \E h \in Handlers : DeleteRelease(h)
    \/ \E h \in Handlers : Status(h)
    \/ \E h \in Handlers : Reply(h)
    \/ \E c \in Channels : ProxyAccept(c)
    \/ \E c \in Channels : ProxyChanged(c)
    \/ \E t \in Transfers : TransferBorrow(t)
    \/ \E t \in Transfers : TransferConnect(t)
    \/ \E t \in Transfers : CopyEnds(t)
    \/ \E t \in Transfers : TransferChanged(t)

Spec == Init /\ [][Next]_vars

\* The control plane alone, with concurrent requests: no client connects to a
\* tunnel port.
RegistryNext ==
    \/ \E h \in Handlers : Rejected(h)
    \/ \E h \in Handlers, id \in Ids, p \in Ports, d \in Dests : CreateCheckId(h, id, p, d)
    \/ \E h \in Handlers : CreateReserve(h)
    \/ \E h \in Handlers : CreateInsert(h)
    \/ \E h \in Handlers : CreateBind(h)
    \/ \E h \in Handlers, id \in Ids, d \in Dests : Modify(h, id, d)
    \/ \E h \in Handlers, id \in Ids : Delete(h, id)
    \/ \E h \in Handlers : DeleteRelease(h)
    \/ \E h \in Handlers : Status(h)
    \/ \E h \in Handlers : Reply(h)
    \/ \E c \in Channels : ProxyChanged(c)

RegistrySpec == Init /\ [][RegistryNext]_vars

\* The control plane driven by one client that sends a command after the
\* previous one was answered.
Quiet == \A h \in Handlers : hs[h].pc = "idle"

SeqNext ==
    \/ \E h \in Handlers : Quiet /\ Rejected(h)
    \/ \E h \in Handlers, id \in Ids, p \in Ports, d \in Dests :
          Quiet /\ CreateCheckId(h, id, p, d)
    \/ \E h \in Handlers : CreateReserve(h)
    \/ \E h \in Handlers : CreateInsert(h)
    \/ \E h \in Handlers : CreateBind(h)
    \/ \E h \in Handlers, id \in Ids, d \in Dests : Quiet /\ Modify(h, id, d)
    \/ \E h \in Handlers, id \in Ids : Quiet /\ Delete(h, id)
    \/ \E h \in Handlers : DeleteRelease(h)
    \/ \E h \in Handlers : Quiet /\ Status(h)
    \/ \E h \in Handlers : Reply(h)
    \/ \E c \in Channels : ProxyChanged(c)

SeqSpec == Init /\ [][SeqNext]_vars

\* The control plane driven by one client, with the signature gate as a step
\* of its own: the payload arrives, then it is verified and either refused or
\* matched and processed.
GateNext ==
    \/ \E h \in Handlers, kind \in Kinds, e \in Envelopes : Quiet /\ Arrived(h, kind, e)
    \/ \E h \in Handlers : Unauthorized(h)
    \/ \E h \in Handlers, id \in Ids, p \in Ports, d \in Dests :
          Matched(h, "create") /\ CreateCheckId(h, id, p, d)
    \/ \E h \in Handlers : CreateReserve(h)
    \/ \E h \in Handlers : CreateInsert(h)
    \/ \E h \in Handlers : CreateBind(h)
    \/ \E h \in Handlers, id \in Ids, d \in Dests : Matched(h, "modify") /\ Modify(h, id, d)
    \/ \E h \in Handlers, id \in Ids : Matched(h, "delete") /\ Delete(h, id)
    \/ \E h \in Handlers : DeleteRelease(h)
    \/ \E h \in Handlers : Matched(h, "status") /\ Status(h)
    \/ \E h \in Handlers : Reply(h)
    \/ \E c \in Channels : ProxyChanged(c)

GateSpec == Init /\ [][GateNext]_vars

\* One tunnel and its connections: no verifying key is configured, one client
\* sends commands for tunnel id 1 on port 1, one after the other, and clients
\* connect to the tunnel port.
TunnelInit == Init /\ verifying_key = FALSE

TunnelNext ==
    \/ \E d \in Dests : Quiet /\ CreateCheckId(1, 1, 1, d)
    \/ CreateReserve(1)
    \/ CreateInsert(1)
    \/ CreateBind(1)
    \/ \E d \in Dests : Quiet /\ Modify(1, 1, d)
    \/ Quiet /\ Delete(1, 1)
    \/ DeleteRelease(1)
    \/ Reply(1)
    \/ \E c \in Channels : ProxyAccept(c)
    \/ \E c \in Channels : ProxyChanged(c)
    \/ \E t \in Transfers : TransferBorrow(t)
    \/ \E t \in Transfers : TransferConnect(t)
    \/ \E t \in Transfers : CopyEnds(t)
    \/ \E t \in Transfers : TransferChanged(t)

TunnelSpec == TunnelInit /\ [][TunnelNext]_vars

\* The tokio runtime polls every spawned task that is ready, a select! with a
\* ready arm completes, and a dial ends (with a connection or an error).  No
\* fairness is assumed of clients: commands, connections and the end of a copy
\* direction may never come.
TaskFairness ==
    /\ \A c \in Channels : WF_vars(ProxyChanged(c))
    /\ \A t \in Transfers : WF_vars(TransferBorrow(t))
    /\ \A t \in Transfers : WF_vars(TransferConnect(t))
    /\ \A t \in Transfers : WF_vars(TransferChanged(t))
    /\ WF_vars(CreateReserve(1) \/ CreateInsert(1) \/ CreateBind(1) \/ DeleteRelease(1)
                  \/ Reply(1))

FairTunnelSpec == TunnelSpec /\ TaskFairness

(***************************************************************************)
(* Properties of the registry.                                             *)
(***************************************************************************)
LiveIds == {i \in Ids : proxies[i] # NoProxy}
LivePorts == {proxies[i].incoming_port : i \in LiveIds}

\* C1: whenever no command is being processed, the port set is exactly the set
\* of incoming ports of the records in the registry, and no two records share
\* an incoming port.
C1_PortSetMatchesRegistry ==
    Quiet => /\ ports = LivePorts
             /\ \A i, j \in LiveIds :
                   i # j => proxies[i].incoming_port # proxies[j].incoming_port

\* C2: the destination of every record in the registry is the destination of
\* the Open message its control channel holds (the last one published on it).
C2_DestinationIsLastOpen ==
    \A i \in LiveIds : chans[proxies[i].control].value = Open(proxies[i].destination)

\* C3: a record leaves the registry (removed or replaced) only in a step that
\* leaves Close published on its control channel, and no record in the
\* registry has Close published on its control channel.
RecordGone(i) == proxies[i] # NoProxy /\ proxies'[i].control # proxies[i].control

C3_RemovedIffClosed ==
    [][/\ \A i \in Ids : RecordGone(i) => chans'[proxies[i].control].value = Close
       /\ \A i \in Ids : proxies'[i] # NoProxy => chans'[proxies'[i].control].value # Close
      ]_vars

\* C4: every record in the registry has its listener task running, bound to
\* the record's incoming port and subscribed to the record's control channel,
\* and no other running listener is bound to that port.
C4_RecordHasListener ==
    \A i \in LiveIds :
        /\ listeners[proxies[i].control].state = "running"
        /\ listeners[proxies[i].control].port = proxies[i].incoming_port
        /\ \A c \in Channels :
              (listeners[c].state = "running" /\ listeners[c].port = proxies[i].incoming_port)
                  => c = proxies[i].control

\* C5: a Create whose id is in the registry when its id check runs, or whose
\* port is in the port set when its reservation runs, answers 409 and changes
\* neither the registry, the port set, the channels nor the listeners.
CreateIdTaken(h) ==
    /\ hs[h].pc = "idle" /\ hs'[h].pc # "idle" /\ hs'[h].kind = "create"
    /\ proxies[hs'[h].id] # NoProxy

CreatePortTaken(h) ==
    /\ hs[h].pc = "create_reserve" /\ hs'[h] # hs[h]
    /\ hs[h].incoming_port \in ports

C5_CreateConflictNoEffect ==
    [][\A h \in Handlers :
          (CreateIdTaken(h) \/ CreatePortTaken(h)) =>
              /\ hs'[h].pc = "done" /\ hs'[h].response = CONFLICT
              /\ UNCHANGED <<proxies, ports, chans, listeners, transfers>>
      ]_vars

\* C6: two Creates of the same id are never both answered 202 while both
\* their tunnels are open, and when no command is being processed every
\* running listener whose channel has not been closed, with the port it holds,
\* belongs to a record of the registry.
BothCreated(g, h) ==
    /\ g # h /\ hs[g].id = hs[h].id
    /\ \A k \in {g, h} : /\ hs[k].pc = "done" /\ hs[k].kind = "create"
                         /\ hs[k].response = ACCEPTED
                         /\ chans[hs[k].control].value # Close

C6_CreatesSerializable ==
    /\ \A g, h \in Handlers : ~BothCreated(g, h)
    /\ Quiet => \A c \in Channels :
                    (listeners[c].state = "running" /\ chans[c].value # Close)
                        => \E i \in LiveIds : /\ proxies[i].control = c
                                              /\ proxies[i].incoming_port = listeners[c].port

\* C7: a Modify or Delete of an id that is not in the registry answers 404 and
\* changes neither the registry, the port set nor any channel.
AbsentId(h) ==
    /\ hs[h].pc = "idle" /\ hs'[h].pc # "idle" /\ hs'[h].kind \in {"modify", "delete"}
    /\ proxies[hs'[h].id] = NoProxy

C7_AbsentIdNotFound ==
    [][\A h \in Handlers :
          AbsentId(h) => /\ hs'[h].pc = "done" /\ hs'[h].response = NOT_FOUND
                         /\ UNCHANGED <<proxies, ports, chans, listeners, transfers>>
      ]_vars

(***************************************************************************)
(* Properties of the listener and transfer tasks.                          *)
(***************************************************************************)
\* The transfer took the changed arm on a message published after its
\* connection was accepted and is connected again, to the destination it read
\* afterwards.
ServedByNewer(t) ==
    /\ transfers[t].pc = "select"
    /\ transfers[t].version > transfers[t].born

\* C8 as stated: a connection that was accepted and served before a Modify is
\* torn down by it, so it is never served by the destination of that Modify.
C8_TornDownAfterModify == \A t \in Transfers : ~ServedByNewer(t)

\* C8 as amended: a Modify does not tear a connection down.  A copying
\* transfer that takes the changed arm on an Open drops its outbound
\* connection, keeps its inbound connection open and returns to the top of its
\* loop; a transfer whose two copy directions are pending leaves the select
\* for its exit only when Close is published; and the next dial goes to the
\* destination the channel then holds.
C8_ModifyRedialsInbound ==
    [][\A t \in Transfers :
          LET c == transfers[t].control IN
          /\ (transfers[t].pc = "select" /\ transfers'[t].pc = "borrow")
                => /\ transfers'[t].inbound = "open"
                   /\ transfers'[t].outbound = 0
                   /\ transfers'[t].version = chans[c].version
          /\ (transfers[t].pc = "select" /\ transfers[t].c2s = "pending"
                /\ transfers[t].s2c = "pending" /\ transfers'[t].pc = "done")
                => chans[c].value = Close
          /\ (transfers[t].pc = "borrow" /\ transfers'[t].pc = "connect")
                => chans[c].value = Open(transfers'[t].current_destination)
      ]_vars

\* A connection accepted before a Modify is copying to the destination of
\* that Modify on its original inbound connection.
C8_Witness ==
    \E t \in Transfers : ServedByNewer(t) /\ transfers[t].inbound = "open"

\* C9: once Close is published on a tunnel's channel, eventually its listener
\* task has exited (its TcpListener dropped) and every transfer of the tunnel
\* has exited with its inbound and outbound connections closed.
Closed(c) == chans[c].allocated /\ chans[c].value = Close

TornDown(c) ==
    /\ listeners[c].state = "exited"
    /\ \A t \in Transfers :
          transfers[t].control = c
              => /\ transfers[t].pc = "done"
                 /\ transfers[t].inbound = "closed"
                 /\ transfers[t].outbound = 0

C9_DeleteTearsDown == \A c \in Channels : Closed(c) ~> TornDown(c)

\* A tunnel is torn down and one of its transfers left through the changed arm
\* of its select: it was copying when it observed the Close.
C9_Witness ==
    \E c \in Channels :
        /\ Closed(c) /\ TornDown(c)
        /\ \E t \in Transfers : /\ transfers[t].control = c
                                 /\ transfers[t].version = chans[c].version

\* C10: once a Delete of a tunnel was answered 202, the tunnel's listener
\* accepts no connection (spawns no transfer).
DeleteAnswered(c) ==
    /\ Closed(c)
    /\ \A h \in Handlers : ~(hs[h].pc \in {"delete_release", "done"}
                                /\ hs[h].kind = "delete" /\ hs[h].control = c)

AcceptedOn(c) ==
    \E t \in Transfers : transfers[t].pc = "unused" /\ transfers'[t].control = c

C10_NoAcceptAfterDelete ==
    [][\A c \in Channels : DeleteAnswered(c) => ~AcceptedOn(c)]_vars

(***************************************************************************)
(* Properties of the signature gate.                                       *)
(***************************************************************************)
\* A call leaves the gate: it is refused with 401, verify_signature aborted,
\* or it passed and its command was matched.
GateStep(h) == hs[h].pc = "verify" /\ hs'[h].pc # "verify"
Refused(h) == hs'[h].pc = "done" /\ hs'[h].response = UNAUTHORIZED
Aborted(h) == hs'[h].pc = "panicked" /\ hs'[h].envelope # None
Passed(h) == ~Refused(h) /\ ~Aborted(h)

Fresh(t) == NowSecs - MaxAge <= t /\ t <= NowSecs + FutureSkew

\* C11: with a key configured and a valid signature over the command and the
\* timestamp t, verification never aborts, passes for every t with
\* now - 60 <= t <= now + 30 and refuses every other t.
C11_FreshWindowAccepted ==
    [][\A h \in Handlers :
          GateStep(h) =>
              LET e == Unwrap(hs[h].envelope) IN
              (verifying_key /\ e.signature = Some(TRUE) /\ e.timestamp # None)
                  => /\ ~Aborted(h)
                     /\ Fresh(Unwrap(e.timestamp)) <=> Passed(h)
      ]_vars

\* C12: verification applies its rules in order: with no key every envelope
\* passes; with a key, an envelope without a signature is refused, one with a
\* signature and no timestamp is refused, and one whose signature does not
\* match is refused whatever its timestamp.
C12_RulesInOrder ==
    [][\A h \in Handlers :
          GateStep(h) =>
              LET e == Unwrap(hs[h].envelope) IN
              /\ ~verifying_key => Passed(h)
              /\ (verifying_key /\ e.signature = None) => Refused(h)
              /\ (verifying_key /\ e.signature # None /\ e.timestamp = None) => Refused(h)
              /\ (verifying_key /\ e.signature = Some(FALSE) /\ e.timestamp # None)
                    => Refused(h)
      ]_vars

\* With a key configured, a call whose signature does not match was refused
\* although its timestamp lies one second in the future.
C12_Witness ==
    \E h \in Handlers :
        /\ hs[h].pc = "done" /\ hs[h].response = UNAUTHORIZED
        /\ hs[h].envelope # None
        /\ Unwrap(hs[h].envelope).signature = Some(FALSE)
        /\ Unwrap(hs[h].envelope).timestamp = Some(NowSecs + 1)

\* C13: a call whose envelope fails verification is answered 401, whatever
\* the variant of its command, and the step changes neither the registry, the
\* port set, the lock, the channels, the listeners nor the transfers.
C13_RefusedNoEffect ==
    [][\A h \in Handlers :
          (hs[h].pc = "verify" /\ Verify(Unwrap(hs[h].envelope)) = "false")
              => \/ hs'[h] = hs[h]
                 \/ /\ Refused(h) /\ hs'[h].kind = hs[h].kind
                    /\ UNCHANGED <<proxies, ports, poisoned, chans, listeners, transfers>>
      ]_vars

\* A Delete was refused with 401 while a tunnel is in the registry with its
\* port reserved and its listener running.
C13_Witness ==
    \E h \in Handlers :
        /\ hs[h].pc = "done" /\ hs[h].response = UNAUTHORIZED /\ hs[h].kind = "delete"
        /\ \E i \in LiveIds : /\ proxies[i].incoming_port \in ports
                               /\ listeners[proxies[i].control].state = "running"

(***************************************************************************)
(* Properties of the error paths.                                          *)
(***************************************************************************)
\* C14: when the bind of a Create is refused, the Create is answered (with an
\* error) and its record and port reservation are rolled back: the id is not
\* in the registry and the port is not in the port set afterwards.
BindRefused(h) ==
    /\ hs[h].pc = "create_bind" /\ hs'[h].pc # "create_bind"
    /\ listeners'[hs[h].control] = listeners[hs[h].control]

C14_BindFailureRolledBack ==
    [][\A h \in Handlers :
          BindRefused(h) => /\ hs'[h].pc = "done" /\ hs'[h].response # ACCEPTED
                            /\ proxies'[hs[h].id] = NoProxy
                            /\ hs[h].incoming_port \notin ports'
      ]_vars

\* C15: a Modify or Delete of a tunnel whose control channel has no subscriber
\* left does not abort: the call goes on, the Delete has removed the record,
\* the registry lock stays usable for every later command, and a Delete that
\* comes to its end has released the port.
SendFails(h) ==
    /\ hs[h].pc = "idle" /\ hs'[h].pc # "idle" /\ hs'[h].kind \in {"modify", "delete"}
    /\ ~poisoned
    /\ proxies[hs'[h].id] # NoProxy
    /\ ~SendOk(proxies[hs'[h].id].control)

C15_SendErrorNotFatal ==
    [][/\ \A h \in Handlers :
          SendFails(h) =>
              /\ hs'[h].pc \in {"done", "delete_release"}
              /\ ~poisoned'
              /\ hs'[h].kind = "delete" => proxies'[hs'[h].id] = NoProxy
       /\ \A h \in Handlers :
          (hs[h].pc = "delete_release" /\ hs'[h].pc # "delete_release")
              => hs'[h].pc = "done" /\ hs[h].incoming_port \notin ports'
      ]_vars

\* C16: a transfer that ends with an error (a failed dial or a copy error)
\* changes nothing but itself: every other transfer, every listener, the
\* registry, the port set, the lock and the channels are as before.
TransferFails(t) ==
    /\ transfers[t].pc \in {"connect", "select"}
    /\ transfers'[t].pc = "done" /\ transfers'[t].result = "err"

C16_ErrorEndsOnlyThatTransfer ==
    [][\A t \in Transfers :
          TransferFails(t) =>
              /\ \A u \in Transfers \ {t} : transfers'[u] = transfers[u]
              /\ UNCHANGED <<proxies, ports, poisoned, chans, listeners>>
      ]_vars

\* A transfer ended with an error while another transfer of the same tunnel
\* is copying and the tunnel's listener is running.
C16_Witness ==
    \E t, u \in Transfers :
        /\ transfers[t].pc = "done" /\ transfers[t].result = "err"
        /\ transfers[u].pc = "select" /\ transfers[u].control = transfers[t].control
        /\ listeners[transfers[t].control].state = "running"

\* C17: a Status is answered 200 with exactly the records of the registry,
\* each id with its incoming port and destination, and changes nothing; a
\* Modify or Delete is answered 202 when the id is in the registry and 404
\* otherwise, and a Create that is answered got 202 or 409.
StatusStep(h) == hs[h].pc = "idle" /\ hs'[h].pc # "idle" /\ hs'[h].kind = "status"

C17_StatusSnapshot ==
    [][\A h \in Handlers :
          /\ StatusStep(h) =>
                /\ hs'[h].pc = "done" /\ hs'[h].response = OK
                /\ hs'[h].tunnels = Snapshot
                /\ UNCHANGED <<proxies, ports, poisoned, chans, listeners, transfers>>
          /\ (hs'[h].pc = "done" /\ hs[h].pc # "done" /\ hs'[h].kind = "create")
                => hs'[h].response \in {ACCEPTED, CONFLICT}
          /\ (hs'[h].pc = "done" /\ hs[h].pc \notin {"done", "delete_release"}
                /\ hs'[h].kind \in {"modify", "delete"})
                => hs'[h].response = IF proxies[hs'[h].id] # NoProxy THEN ACCEPTED
                                     ELSE NOT_FOUND
          /\ (hs[h].pc = "delete_release" /\ hs'[h].pc # "delete_release")
                => hs'[h].pc = "done" /\ hs'[h].response = ACCEPTED
      ]_vars

(***************************************************************************)
(* Properties of a transfer's reading of the control channel.              *)
(***************************************************************************)
\* C18: a transfer at the top of its loop reads the message the channel holds
\* at that moment: on Open it captures that destination and its dial goes to
\* it, on Close it exits cleanly without dialing; and a Modify answered 202
\* has left its destination published on the channel.
C18_DialsLatestPublished ==
    [][/\ \A t \in Transfers :
            LET ch == chans[transfers[t].control] IN
            /\ (transfers[t].pc = "borrow" /\ transfers'[t] # transfers[t])
                  => IF ch.value.tag = "Open"
                     THEN /\ transfers'[t].pc = "connect"
                          /\ transfers'[t].current_destination = ch.value.destination
                          /\ transfers'[t].readAt = ch.version
                     ELSE /\ transfers'[t].pc = "done" /\ transfers'[t].result = "ok"
                          /\ transfers'[t].outbound = 0
            /\ (transfers[t].pc = "connect" /\ transfers'[t].pc = "select")
                  => transfers'[t].outbound = transfers[t].current_destination
       /\ \A h \in Handlers :
            (hs[h].pc = "idle" /\ hs'[h].pc = "done" /\ hs'[h].kind = "modify"
               /\ hs'[h].response = ACCEPTED)
                  => chans'[hs'[h].control].value = Open(proxies'[hs'[h].id].destination)
      ]_vars

\* After a Modify was answered, a transfer read the channel and is connected
\* to the destination of that Modify, which the channel still holds.
C18_Witness ==
    /\ Quiet
    /\ \E t \in Transfers :
          /\ transfers[t].pc = "select"
          /\ transfers[t].readAt >= 1
          /\ transfers[t].readAt = chans[transfers[t].control].version
          /\ chans[transfers[t].control].value = Open(transfers[t].outbound)

\* C19: a copying transfer that observes Open drops its outbound connection
\* and restarts its loop with its inbound connection open; it starts a dial
\* only while it holds no outbound connection, resumes copying in both
\* directions on the connection it dialed, and as long as it runs its inbound
\* connection stays open.
InLoop(tr) == tr.pc \in {"borrow", "connect", "select"}

C19_RedialKeepsInbound ==
    [][\A t \in Transfers :
          /\ (transfers[t].pc = "select" /\ transfers'[t].pc = "borrow")
                => transfers'[t].outbound = 0
          /\ transfers'[t].pc \in {"borrow", "connect"} => transfers'[t].outbound = 0
          /\ (transfers[t].pc = "connect" /\ transfers'[t].pc = "select")
                => /\ transfers'[t].outbound = transfers[t].current_destination
                   /\ transfers'[t].c2s = "pending" /\ transfers'[t].s2c = "pending"
          /\ (InLoop(transfers[t]) /\ InLoop(transfers'[t]))
                => transfers[t].inbound = "open" /\ transfers'[t].inbound = "open"
      ]_vars

\* A connection accepted before two Modifies is copying, on its inbound
\* connection, to the destination of the second one.
C19_Witness ==
    \E t \in Transfers :
        /\ transfers[t].pc = "select" /\ transfers[t].inbound = "open"
        /\ transfers[t].born = 0 /\ transfers[t].version = 2
        /\ chans[transfers[t].control].value = Open(transfers[t].outbound)

\* C20: a copying transfer takes the changed arm (and redials) only when a
\* message was published after the value it last read.
C20_WokenOnlyByNewerMessage ==
    [][\A t \in Transfers :
          (transfers[t].pc = "select" /\ transfers'[t].pc = "borrow")
              => chans[transfers[t].control].version > transfers[t].readAt
      ]_vars

(***************************************************************************)
(* Properties of the exits of the tasks.                                   *)
(***************************************************************************)
\* C21: a copying transfer exits in the step in which one of its copy
\* directions reports an error, whether or not the other direction is still
\* pending, so that no transfer keeps copying with a failed direction; and
\* unless Close is published it exits cleanly only when both directions have
\* ended without error.
C21_ExitsOnFirstError ==
    [][\A t \in Transfers :
          /\ transfers'[t].pc = "select"
                => transfers'[t].c2s # "err" /\ transfers'[t].s2c # "err"
          /\ (transfers[t].pc = "select" /\ transfers'[t].pc = "done"
                /\ transfers'[t].result = "ok"
                /\ chans[transfers[t].control].value # Close)
                => /\ transfers[t].c2s \in {"ok", "pending"}
                   /\ transfers[t].s2c \in {"ok", "pending"}
                   /\ transfers[t].c2s = "ok" \/ transfers[t].s2c = "ok"
      ]_vars

\* C22: a running listener task exits only in a step in which its channel
\* holds Close, and its changed arm then does exit; on Open it keeps running;
\* accepting a connection leaves it as it is; and once exited it stays exited
\* and accepts nothing.
C22_ListenerExitsOnlyOnClose ==
    [][\A c \in Channels :
          /\ (listeners[c].state = "running" /\ listeners'[c] # listeners[c])
                => IF chans[c].value = Close
                   THEN listeners'[c].state = "exited"
                   ELSE listeners'[c].state = "running"
          /\ AcceptedOn(c) => /\ listeners[c].state = "running"
                              /\ listeners'[c] = listeners[c]
          /\ listeners[c].state = "exited" => listeners'[c] = listeners[c]
      ]_vars

\* A listener that accepted a connection and observed the Open of a Modify
\* has exited on the Close of the Delete.
C22_Witness ==
    \E c \in Channels :
        /\ listeners[c].state = "exited" /\ chans[c].value = Close
        /\ listeners[c].version >= 1
        /\ \E t \in Transfers : transfers[t].control = c

====
